---- MODULE Spec2Model ----
(***************************************************************************)
(* Model of the httplog package (ZapRequestLogger and its log entry,       *)
(* request/response/header marshalers) together with the pieces of the     *)
(* handler chain it is used with in _example/main.go.                      *)
(***************************************************************************)
EXTENDS Integers, Sequences, FiniteSets, TLC

VARIABLES
    hdrIn,      \* header redactor: the http.Header handed to httpHeaderLog
    hdrOut,     \* header redactor: the AddString calls the encoder received
    hpc,        \* header redactor: "idle" | "input" | "done"
    pc,         \* where the request is: "start" | "handler" | "recoverer" |
                \*   "deferred" | "returned" | "propagated" ("idle": no request)
    recoverer,  \* whether middleware.Recoverer sits between the interceptor and the handler
    base,       \* the *zap.Logger given to ZapRequestLogger
    r,          \* the *http.Request (its Body is the stream left to read)
    entry,      \* zapLogEntry.Logger, <<>> until NewLogEntry has made the entry
    ww,         \* the middleware.WrapResponseWriter
    buf,        \* the bytes.Buffer the writer tees into
    w,          \* the underlying http.ResponseWriter: what the client has been sent
    wHeader,    \* the response header map, shared by w and ww
    log,        \* the records handed to the logging sink, in order
    panicVal,   \* the panic in flight, <<>> if none
    sent,       \* the body B the client sent
    hOps,       \* number of steps the handler has taken
    hWritten,   \* concatenation of the chunks the handler has written
    hFirst,     \* the handler's first call on the response writer, <<>> if none yet
    hSetStatus, \* whether the handler has called WriteHeader
    hKeys,      \* the keys the handler has set with LogEntrySetField(s), in order
    hPanic,     \* the value the handler panicked with, <<>> if it has not
    bodyErr,    \* whether the client's body stream fails before B has arrived
    downstream, \* the bytes the handler has read from r.Body
    got,        \* the logger the handler retrieved with RawLogEntry, <<>> if none
    gKeys,      \* the keys the handler has added to the logger it retrieved
    gpc,        \* two goroutines calling LogEntrySetField: where each is
    glocal,     \* two goroutines calling LogEntrySetField: the logger each has read
    reqs        \* concurrent requests: the state of each (SpecMulti)

hvars == <<hdrIn, hdrOut, hpc>>
ghosts == <<sent, hOps, hWritten, hFirst, hSetStatus, hKeys, hPanic, bodyErr, downstream>>
rvars == <<pc, recoverer, base, r, entry, ww, buf, w, wHeader, log, panicVal>>
xvars == <<got, gKeys, gpc, glocal, reqs>>
vars == <<hvars, rvars, ghosts, xvars>>

Range(s) == {s[i] : i \in 1..Len(s)}

\* All sequences over S of length 0..n.
SeqsUpTo(S, n) == UNION {[1..k -> S] : k \in 0..n}

\* All orders in which the elements of the finite set S can be visited.
Perms(S) == {p \in [1..Cardinality(S) -> S] : Range(p) = S}

(***************************************************************************)
(* Bounds.                                                                 *)
(***************************************************************************)
MaxVals == 2        \* values per header
MaxHdrKeys == 2     \* keys per header map
MaxBody == 2        \* bytes in a request body
MaxCores == 2       \* encoders (cores) behind the base logger
MaxOps == 3         \* steps the handler takes before it returns or panics

(***************************************************************************)
(* strings.ToLower, character by character.                                *)
(***************************************************************************)
UpperChars == <<"A","B","C","D","E","F","G","H","I","J","K","L","M",
                "N","O","P","Q","R","S","T","U","V","W","X","Y","Z">>
LowerChars == <<"a","b","c","d","e","f","g","h","i","j","k","l","m",
                "n","o","p","q","r","s","t","u","v","w","x","y","z">>

LowerChar(c) ==
    IF \E i \in 1..Len(UpperChars) : UpperChars[i] = c
    THEN LowerChars[CHOOSE i \in 1..Len(UpperChars) : UpperChars[i] = c]
    ELSE c

ToLower(k) == [i \in 1..Len(k) |-> LowerChar(k[i])]

\* Header names are sequences of characters, so that ToLower acts on them.
NAuthorization == <<"A","u","t","h","o","r","i","z","a","t","i","o","n">>
NCookieUpper   == <<"C","O","O","K","I","E">>
NSetCookie     == <<"S","e","t","-","C","o","o","k","i","e">>
NXId           == <<"X","-","I","d">>
NXIdLower      == <<"x","-","i","d">>
NContentType   == <<"C","o","n","t","e","n","t","-","T","y","p","e">>

authorization == <<"a","u","t","h","o","r","i","z","a","t","i","o","n">>
cookie        == <<"c","o","o","k","i","e">>
setcookie     == <<"s","e","t","-","c","o","o","k","i","e">>

maskedString == "***"

\* strings.Join(v, sep)
RECURSIVE Join(_, _)
Join(v, sep) ==
    IF Len(v) = 0 THEN ""
    ELSE IF Len(v) = 1 THEN v[1]
    ELSE v[1] \o sep \o Join(Tail(v), sep)

\* The test of line 243 on the lowercased key.
IsMasked(k, v) ==
    (k = authorization \/ k = cookie \/ k = setcookie) /\ Len(v) # 0

\* One iteration of the loop of httpHeaderLog.MarshalLogObject: the AddString
\* calls (key, value) made for header k with values v.
HeaderEntryNoLower(k, v) ==
    IF IsMasked(k, v) THEN <<[key |-> k, val |-> maskedString]>>
    ELSE IF Len(v) = 0 THEN <<>>
    ELSE IF Len(v) = 1 THEN <<[key |-> k, val |-> v[1]]>>
    ELSE <<[key |-> k, val |-> "[" \o Join(v, "], [") \o "]"]>>

HeaderEntryPlainJoin(k, v) ==
    LET lk == ToLower(k) IN
    IF IsMasked(lk, v) THEN <<[key |-> lk, val |-> maskedString]>>
    ELSE IF Len(v) = 0 THEN <<>>
    ELSE IF Len(v) = 1 THEN <<[key |-> lk, val |-> v[1]]>>
    ELSE <<[key |-> lk, val |-> Join(v, ", ")]>>

HeaderEntry(k, v) ==
    LET lk == ToLower(k) IN
    IF IsMasked(lk, v) THEN <<[key |-> lk, val |-> maskedString]>>
    ELSE IF Len(v) = 0 THEN <<>>
    ELSE IF Len(v) = 1 THEN <<[key |-> lk, val |-> v[1]]>>
    ELSE <<[key |-> lk, val |-> "[" \o Join(v, "], [") \o "]"]>>

\* httpHeaderLog.MarshalLogObject over header map h, the map being ranged
\* over in the order `order` (Go leaves the order of a map range open).
RECURSIVE HeaderLog(_, _)
HeaderLog(h, order) ==
    IF order = <<>> THEN <<>>
    ELSE HeaderEntry(Head(order), h[Head(order)]) \o HeaderLog(h, Tail(order))

(***************************************************************************)
(* The header redactor on its own: every header map within the bounds.     *)
(***************************************************************************)
SensitiveNames == {NAuthorization, NCookieUpper, NSetCookie}
PlainNames == {NXId, NXIdLower}
HdrNames == SensitiveNames \cup PlainNames

\* The values a header can carry: the values of a sensitive header are
\* secrets, told apart from the values of the other headers.
Secrets == <<"s3cr3t", "t0k3n">>
PlainVals == <<"v1", "v2">>

ValOf(k, i) == IF k \in SensitiveNames THEN Secrets[i] ELSE PlainVals[i]

\* Every header map with up to MaxHdrKeys names and up to MaxVals values each.
HeaderMaps ==
    UNION {
        {[k \in K |-> [j \in 1..Len(g[k]) |-> ValOf(k, g[k][j])]] :
            g \in [K -> SeqsUpTo(1..Len(Secrets), MaxVals)]} :
        K \in {K \in SUBSET HdrNames : Cardinality(K) <= MaxHdrKeys}
    }

\* The variables of the other specifications when they are not in use.
NoExtras ==
    /\ got = <<>> /\ gKeys = <<>> /\ gpc = <<>> /\ glocal = <<>> /\ reqs = <<>>

\* The request variables when no request is modelled.
NoRequest ==
    /\ NoExtras
    /\ pc = "idle" /\ recoverer = FALSE /\ base = <<>> /\ r = <<>>
    /\ entry = <<>> /\ ww = <<>> /\ buf = <<>> /\ w = <<>> /\ wHeader = <<>>
    /\ log = <<>> /\ panicVal = <<>> /\ sent = <<>> /\ hOps = 0
    /\ hWritten = <<>> /\ hFirst = <<>> /\ hSetStatus = FALSE /\ hKeys = <<>>
    /\ hPanic = <<>> /\ bodyErr = FALSE /\ downstream = <<>>

HdrInit ==
    /\ hdrIn \in HeaderMaps
    /\ hdrOut = <<>>
    /\ hpc = "input"
    /\ NoRequest

\* enc.AddObject("header", &httpHeaderLog{...}) on the header map hdrIn.
MarshalHeader ==
    /\ hpc = "input"
    /\ \E order \in Perms(DOMAIN hdrIn) :
           hdrOut' = HeaderLog(hdrIn, order)
    /\ hpc' = "done"
    /\ UNCHANGED <<hdrIn, rvars, ghosts, xvars>>

HdrNext == MarshalHeader

SpecHdr == HdrInit /\ [][HdrNext]_vars

(***************************************************************************)
(* Request body streams.  A stream is the bytes still to be read and       *)
(* whether reading past them fails (err) or reports io.EOF.                *)
(***************************************************************************)
Bytes == {"a", "b"}

Stream(data, err) == [data |-> data, err |-> err]

\* io.ReadAll(io.TeeReader(body, b)): every byte read from body is written
\* to b before it is returned; reading stops at io.EOF or at the first error,
\* and the bytes read so far are returned either way.
RECURSIVE ReadAllTee(_, _, _)
ReadAllTee(body, acc, b) ==
    IF body.data = <<>>
    THEN [bytes |-> acc, b |-> b, err |-> body.err]
    ELSE ReadAllTee(Stream(Tail(body.data), body.err),
                    Append(acc, Head(body.data)),
                    Append(b, Head(body.data)))

\* An optional field of a log object: <<>> when the field is not added.
Some(x) == <<x>>

\* httpRequestLog.MarshalLogObject without the tee: the body is read and the
\* drained stream is left in place.
MarshalRequestDrain(req, order) ==
    LET rd == ReadAllTee(req.Body, <<>>, <<>>) IN
    [obj |-> [method |-> req.Method,
              scheme |-> IF req.TLS THEN "https" ELSE "http",
              host |-> req.Host,
              requestURI |-> req.RequestURI,
              proto |-> req.Proto,
              remoteAddr |-> req.RemoteAddr,
              header |-> IF Cardinality(DOMAIN req.Header) > 0
                         THEN Some(HeaderLog(req.Header, order)) ELSE <<>>,
              reqId |-> IF req.ReqID # "" THEN Some(req.ReqID) ELSE <<>>,
              body |-> IF Len(rd.bytes) # 0 THEN Some(rd.bytes) ELSE <<>>],
     req |-> [req EXCEPT !.Body = Stream(<<>>, FALSE)]]

\* httpRequestLog.MarshalLogObject giving up the bytes it read when the
\* read ends in an error.
MarshalRequestEmptyOnErr(req, order) ==
    LET rd == ReadAllTee(req.Body, <<>>, <<>>)
        bytes == IF rd.err THEN <<>> ELSE rd.bytes IN
    [obj |-> [method |-> req.Method,
              scheme |-> IF req.TLS THEN "https" ELSE "http",
              host |-> req.Host,
              requestURI |-> req.RequestURI,
              proto |-> req.Proto,
              remoteAddr |-> req.RemoteAddr,
              header |-> IF Cardinality(DOMAIN req.Header) > 0
                         THEN Some(HeaderLog(req.Header, order)) ELSE <<>>,
              reqId |-> IF req.ReqID # "" THEN Some(req.ReqID) ELSE <<>>,
              body |-> IF Len(bytes) # 0 THEN Some(bytes) ELSE <<>>],
     req |-> [req EXCEPT !.Body = Stream(rd.b, FALSE)]]

\* httpRequestLog.MarshalLogObject: the fields added to the encoder (obj) and
\* the request as it is left, its Body replaced by io.NopCloser(b).
MarshalRequest(req, order) ==
    LET rd == ReadAllTee(req.Body, <<>>, <<>>) IN
    [obj |-> [method |-> req.Method,
              scheme |-> IF req.TLS THEN "https" ELSE "http",
              host |-> req.Host,
              requestURI |-> req.RequestURI,
              proto |-> req.Proto,
              remoteAddr |-> req.RemoteAddr,
              header |-> IF Cardinality(DOMAIN req.Header) > 0
                         THEN Some(HeaderLog(req.Header, order)) ELSE <<>>,
              reqId |-> IF req.ReqID # "" THEN Some(req.ReqID) ELSE <<>>,
              body |-> IF Len(rd.bytes) # 0 THEN Some(rd.bytes) ELSE <<>>],
     req |-> [req EXCEPT !.Body = Stream(rd.b, FALSE)]]

(***************************************************************************)
(* Loggers.  A zap.Logger is the context its cores have encoded: the       *)
(* httpRequest object of each core (With encodes an object once per core), *)
(* the fields added with zap.Reflect, and whether a stack trace is         *)
(* attached to error records.                                              *)
(***************************************************************************)
\* l.Logger.With(zap.Object("httpRequest", &httpRequestLog{Request: r})):
\* each core from `from` on encodes the object, one after the other, on the
\* same *http.Request.
RECURSIVE WithHTTPRequest(_, _, _, _)
WithHTTPRequest(l, req, orders, from) ==
    IF from > Len(l.httpRequest)
    THEN [logger |-> l, req |-> req]
    ELSE LET m == MarshalRequest(req, orders[from]) IN
         WithHTTPRequest([l EXCEPT !.httpRequest[from] = Some(m.obj)],
                         m.req, orders, from + 1)

\* logger.With(zap.Reflect(key, value))
WithField(l, key, value) ==
    [l EXCEPT !.fields = Append(@, [key |-> key, val |-> value])]

\* A record as the sink receives it from logger l.
Record(l, level, msg) ==
    [msg |-> msg, level |-> level,
     httpRequest |-> l.httpRequest, fields |-> l.fields,
     autoStack |-> l.addStack /\ level = "error",
     httpResponse |-> <<>>, panic |-> <<>>, stack |-> <<>>]

\* zapdLogFormatter.NewLogEntry with the "Request started" record left out.
NewLogEntrySilent(l, req, orders, lg) ==
    LET wr == WithHTTPRequest(l, req, orders, 1) IN
    [entry |-> wr.logger, req |-> wr.req, log |-> lg]

\* zapdLogFormatter.NewLogEntry: the entry's logger, the request as the
\* marshaler left it, and the sink after "Request started".
NewLogEntry(l, req, orders, lg) ==
    LET wr == WithHTTPRequest(l, req, orders, 1) IN
    [entry |-> wr.logger, req |-> wr.req,
     log |-> Append(lg, Record(wr.logger, "info", "Request started"))]

\* httpResponseLog.MarshalLogObject on the header map as it was when the
\* interceptor was entered: empty.
MarshalResponseEntryHeader(status, bytes, header, extraBody, order) ==
    [status |-> status,
     bytes |-> bytes,
     header |-> <<>>,
     body |-> IF Len(extraBody) # 0 THEN Some(extraBody) ELSE <<>>]

\* httpResponseLog.MarshalLogObject (the elapsed time is left out).
MarshalResponse(status, bytes, header, extraBody, order) ==
    [status |-> status,
     bytes |-> bytes,
     header |-> IF Cardinality(DOMAIN header) > 0
                THEN Some(HeaderLog(header, order)) ELSE <<>>,
     body |-> IF Len(extraBody) # 0 THEN Some(extraBody) ELSE <<>>]

\* zapLogEntry.Write on a logger that lost the request's context.
EntryWriteNoContext(l, status, bytes, header, extraBody, order) ==
    [Record([l EXCEPT !.httpRequest = [c \in DOMAIN @ |-> <<>>]],
            "info", "Request complete") EXCEPT
        !.httpResponse = Some(MarshalResponse(status, bytes, header, extraBody, order))]

\* zapLogEntry.Write: the "Request complete" record.
EntryWrite(l, status, bytes, header, extraBody, order) ==
    [Record(l, "info", "Request complete") EXCEPT
        !.httpResponse = Some(MarshalResponse(status, bytes, header, extraBody, order))]

\* fmt.Sprintf("%+v", v) of a panic value: a string prints as itself, an
\* error as its Error() text.
SprintfV(v) == v.text

\* zapLogEntry.Panic: the "Panic" record, from a logger that attaches no
\* stack trace of its own.
EntryPanic(l, v, stack) ==
    [Record([l EXCEPT !.addStack = FALSE], "error", "Panic") EXCEPT
        !.panic = Some(SprintfV(v)), !.stack = Some(stack)]

\* LogEntrySetField with the new logger derived from the base logger's
\* context instead of the entry's current one.
SetFieldFromScratch(l, key, value) ==
    [l EXCEPT !.fields = <<[key |-> key, val |-> value]>>]

\* LogEntrySetField on an attached entry: the entry's new logger.
SetField(l, key, value) == WithField(l, key, value)

\* LogEntrySetFields on an attached entry, the map ranged over in `order`.
RECURSIVE SetFields(_, _, _)
SetFields(l, fields, order) ==
    IF order = <<>> THEN l
    ELSE SetFields(SetField(l, Head(order), fields[Head(order)]), fields, Tail(order))

(***************************************************************************)
(* The response writer.  w is the server's http.ResponseWriter (status 0:  *)
(* no header sent yet); ww is chi's wrapper around it (basicWriter).       *)
(***************************************************************************)
\* http.ResponseWriter.WriteHeader: the first status sent stays.
UnderWriteHeader(under, code) ==
    IF under.status = 0 THEN [under EXCEPT !.status = code] ELSE under

\* http.ResponseWriter.Write: sends the implicit 200 first if need be.
UnderWrite(under, p) ==
    [UnderWriteHeader(under, 200) EXCEPT !.body = @ \o p]

\* WrapResponseWriter.WriteHeader
WrapWriteHeader(wrap, under, code) ==
    IF ~wrap.wroteHeader
    THEN [ww |-> [wrap EXCEPT !.code = code, !.wroteHeader = TRUE],
          w |-> UnderWriteHeader(under, code)]
    ELSE [ww |-> wrap, w |-> under]

\* WrapResponseWriter.Write without the copy into the tee.
WrapWriteNoTee(wrap, under, tee, p) ==
    LET h == WrapWriteHeader(wrap, under, 200) IN
    [ww |-> [h.ww EXCEPT !.bytes = @ + Len(p)],
     w |-> UnderWrite(h.w, p),
     buf |-> tee]

\* WrapResponseWriter.Write holding the bytes back instead of passing them
\* on to the underlying writer.
WrapWriteBuffered(wrap, under, tee, p) ==
    LET h == WrapWriteHeader(wrap, under, 200) IN
    [ww |-> [h.ww EXCEPT !.bytes = @ + Len(p)],
     w |-> h.w,
     buf |-> tee \o p]

\* WrapResponseWriter.Write with ww.Tee(buf) in place.
WrapWrite(wrap, under, tee, p) ==
    LET h == WrapWriteHeader(wrap, under, 200) IN
    [ww |-> [h.ww EXCEPT !.bytes = @ + Len(p)],
     w |-> UnderWrite(h.w, p),
     buf |-> tee \o p]

(***************************************************************************)
(* One request through ZapRequestLogger(base)(next).                       *)
(***************************************************************************)
ErrAbortHandler == [kind |-> "error", text |-> "net/http: abort Handler"]
PanicVals == {[kind |-> "string", text |-> "oh no"], ErrAbortHandler}

Chunks == {<<"x">>, <<"y", "z">>}
Codes == {201, 404}
HeaderAdds == {<<NContentType, "text/plain">>, <<NSetCookie, "sid=1">>}
FieldKeys == {"user", "op"}
FieldMaps == {[k \in {"user", "trace"} |-> "m"]}

ReqMetas ==
    {[Method |-> "GET", TLS |-> FALSE, Host |-> "example.com", RequestURI |-> "/",
      Proto |-> "HTTP/1.1", RemoteAddr |-> "10.0.0.1:1234",
      Header |-> <<>>, ReqID |-> ""],
     [Method |-> "POST", TLS |-> TRUE, Host |-> "example.com", RequestURI |-> "/info",
      Proto |-> "HTTP/1.1", RemoteAddr |-> "10.0.0.1:1234",
      Header |-> (NAuthorization :> <<"s3cr3t">>), ReqID |-> "req-1"]}

\* The body streams of a client that sends B: all of B, or a prefix of B
\* followed by a read error.
BodyStreams(B) ==
    {[stream |-> Stream(B, FALSE), fails |-> FALSE]}
    \cup {[stream |-> Stream(SubSeq(B, 1, k), TRUE), fails |-> TRUE] : k \in 0..Len(B)}

WithBody(meta, body) ==
    [Method |-> meta.Method, TLS |-> meta.TLS, Host |-> meta.Host,
     RequestURI |-> meta.RequestURI, Proto |-> meta.Proto,
     RemoteAddr |-> meta.RemoteAddr, Header |-> meta.Header,
     ReqID |-> meta.ReqID, Body |-> body]

\* zap.NewProduction(): error records get a stack trace; n cores.
BaseLogger(n) ==
    [httpRequest |-> [i \in 1..n |-> <<>>], fields |-> <<>>, addStack |-> TRUE]

\* A request about to enter the interceptor, its body one of `bodies`.
InitWith(bodies) ==
    /\ hdrIn = <<>> /\ hdrOut = <<>> /\ hpc = "idle"
    /\ NoExtras
    /\ pc = "start"
    /\ recoverer \in BOOLEAN
    /\ base \in {BaseLogger(n) : n \in 1..MaxCores}
    /\ sent \in bodies
    /\ \E meta \in ReqMetas, bs \in BodyStreams(sent) :
           /\ r = WithBody(meta, bs.stream)
           /\ bodyErr = bs.fails
    /\ entry = <<>>
    /\ ww = [code |-> 0, wroteHeader |-> FALSE, bytes |-> 0]
    /\ buf = <<>>
    /\ w = [status |-> 0, body |-> <<>>]
    /\ wHeader = <<>>
    /\ log = <<>>
    /\ panicVal = <<>>
    /\ hOps = 0 /\ hWritten = <<>> /\ hFirst = <<>> /\ hSetStatus = FALSE
    /\ hKeys = <<>> /\ hPanic = <<>> /\ downstream = <<>>

\* The request's whole life with a handler of up to MaxOps steps, for an
\* empty and a non-empty body.
Init == InitWith({<<>>, <<"a", "b">>})

\* The body capture for every body within MaxBody.
InitBody == InitWith(SeqsUpTo(Bytes, MaxBody))

\* ZapRequestLogger's fn up to its call of next.ServeHTTP: NewLogEntry,
\* NewWrapResponseWriter, Tee, and the entry put into the request's context.
Enter ==
    /\ pc = "start"
    /\ \E orders \in [1..Len(base.httpRequest) -> Perms(DOMAIN r.Header)] :
           LET e == NewLogEntry(base, r, orders, log) IN
           /\ entry' = Some(e.entry)
           /\ r' = e.req
           /\ log' = e.log
    /\ ww' = [code |-> 0, wroteHeader |-> FALSE, bytes |-> 0]
    /\ buf' = <<>>
    /\ pc' = "handler"
    /\ UNCHANGED <<hvars, xvars, recoverer, base, w, wHeader, panicVal, ghosts>>

InHandler == pc = "handler" /\ hOps < MaxOps

\* The handler calls w.Write(p) on the writer it was given.
HandlerWrite(p) ==
    /\ InHandler
    /\ LET o == WrapWrite(ww, w, buf, p) IN
           ww' = o.ww /\ w' = o.w /\ buf' = o.buf
    /\ hWritten' = hWritten \o p
    /\ hFirst' = IF hFirst = <<>> THEN Some([op |-> "Write", code |-> 0]) ELSE hFirst
    /\ hOps' = hOps + 1
    /\ UNCHANGED <<hvars, xvars, pc, recoverer, base, r, entry, wHeader, log, panicVal,
                   sent, hSetStatus, hKeys, hPanic, bodyErr, downstream>>

\* The handler calls w.WriteHeader(code).
HandlerWriteHeader(code) ==
    /\ InHandler
    /\ LET o == WrapWriteHeader(ww, w, code) IN
           ww' = o.ww /\ w' = o.w
    /\ hFirst' = IF hFirst = <<>> THEN Some([op |-> "WriteHeader", code |-> code]) ELSE hFirst
    /\ hSetStatus' = TRUE
    /\ hOps' = hOps + 1
    /\ UNCHANGED <<hvars, xvars, pc, recoverer, base, r, entry, buf, wHeader, log, panicVal,
                   sent, hWritten, hKeys, hPanic, bodyErr, downstream>>

\* The handler calls w.Header().Add(k, v).
HandlerHeaderAdd(k, v) ==
    /\ InHandler
    /\ wHeader' = IF k \in DOMAIN wHeader
                  THEN [wHeader EXCEPT ![k] = Append(@, v)]
                  ELSE wHeader @@ (k :> <<v>>)
    /\ hOps' = hOps + 1
    /\ UNCHANGED <<hvars, xvars, pc, recoverer, base, r, entry, ww, buf, w, log, panicVal,
                   sent, hWritten, hFirst, hSetStatus, hKeys, hPanic, bodyErr, downstream>>

\* The handler calls LogEntrySetField(r.Context(), key, value).
HandlerSetField(key, value) ==
    /\ InHandler
    /\ entry' = Some(SetField(entry[1], key, value))
    /\ hKeys' = Append(hKeys, key)
    /\ hOps' = hOps + 1
    /\ UNCHANGED <<hvars, xvars, pc, recoverer, base, r, ww, buf, w, wHeader, log, panicVal,
                   sent, hWritten, hFirst, hSetStatus, hPanic, bodyErr, downstream>>

\* The handler calls LogEntrySetFields(r.Context(), fields).
HandlerSetFields(fields) ==
    /\ InHandler
    /\ \E order \in Perms(DOMAIN fields) :
           /\ entry' = Some(SetFields(entry[1], fields, order))
           /\ hKeys' = hKeys \o order
    /\ hOps' = hOps + 1
    /\ UNCHANGED <<hvars, xvars, pc, recoverer, base, r, ww, buf, w, wHeader, log, panicVal,
                   sent, hWritten, hFirst, hSetStatus, hPanic, bodyErr, downstream>>

\* The handler reads the next byte of r.Body.
HandlerReadBody ==
    /\ InHandler
    /\ r.Body.data # <<>>
    /\ downstream' = Append(downstream, Head(r.Body.data))
    /\ r' = [r EXCEPT !.Body.data = Tail(@)]
    /\ hOps' = hOps + 1
    /\ UNCHANGED <<hvars, xvars, pc, recoverer, base, entry, ww, buf, w, wHeader, log, panicVal,
                   sent, hWritten, hFirst, hSetStatus, hKeys, hPanic, bodyErr>>

\* The handler returns.  With no panic in flight the Recoverer's deferred
\* function, if there is one, does nothing.
HandlerReturn ==
    /\ pc = "handler"
    /\ pc' = "deferred"
    /\ UNCHANGED <<hvars, xvars, recoverer, base, r, entry, ww, buf, w, wHeader, log, panicVal,
                   ghosts>>

\* The handler panics with v; the panic unwinds to the nearest deferred
\* function: the Recoverer's if it is in the chain, else the interceptor's.
HandlerPanic(v) ==
    /\ pc = "handler"
    /\ panicVal' = Some(v)
    /\ hPanic' = Some(v)
    /\ pc' = IF recoverer THEN "recoverer" ELSE "deferred"
    /\ UNCHANGED <<hvars, xvars, recoverer, base, r, entry, ww, buf, w, wHeader, log,
                   sent, hOps, hWritten, hFirst, hSetStatus, hKeys, bodyErr, downstream>>

\* middleware.Recoverer's deferred function with a panic in flight:
\* http.ErrAbortHandler is panicked again; any other value is handed to the
\* request's log entry and answered with a 500 through the writer it was given.
RecovererDeferred ==
    /\ pc = "recoverer"
    /\ IF panicVal[1] = ErrAbortHandler
       THEN UNCHANGED <<panicVal, log, ww, w>>
       ELSE /\ panicVal' = <<>>
            /\ log' = Append(log, EntryPanic(entry[1], panicVal[1], "goroutine 1 [running]"))
            /\ LET o == WrapWriteHeader(ww, w, 500) IN
                   ww' = o.ww /\ w' = o.w
    /\ pc' = "deferred"
    /\ UNCHANGED <<hvars, xvars, recoverer, base, r, entry, buf, wHeader, ghosts>>

\* The deferred function, were it to recover the panic and answer it itself.
InterceptorDeferredRecover ==
    /\ pc = "deferred"
    /\ \E order \in Perms(DOMAIN wHeader) :
           log' = Append(log, EntryWrite(entry[1], ww.code, ww.bytes, wHeader, buf, order))
    /\ buf' = <<>>
    /\ panicVal' = <<>>
    /\ LET o == WrapWriteHeader(ww, w, 500) IN
           ww' = o.ww /\ w' = o.w
    /\ pc' = "returned"
    /\ UNCHANGED <<hvars, xvars, recoverer, base, r, entry, wHeader, ghosts>>

\* The completion logging as a plain statement after next.ServeHTTP instead
\* of a deferred function: a panic passes it by.
InterceptorNotDeferred ==
    /\ pc = "deferred"
    /\ IF panicVal # <<>>
       THEN UNCHANGED <<log, buf>>
       ELSE /\ \E order \in Perms(DOMAIN wHeader) :
                   log' = Append(log, EntryWrite(entry[1], ww.code, ww.bytes, wHeader, buf, order))
            /\ buf' = <<>>
    /\ pc' = IF panicVal # <<>> THEN "propagated" ELSE "returned"
    /\ UNCHANGED <<hvars, xvars, recoverer, base, r, entry, ww, w, wHeader, panicVal, ghosts>>

\* ZapRequestLogger's deferred function: it reads the tee buffer and writes
\* the "Request complete" record; it does not recover, so a panic in flight
\* goes on to the caller.
InterceptorDeferred ==
    /\ pc = "deferred"
    /\ \E order \in Perms(DOMAIN wHeader) :
           log' = Append(log, EntryWrite(entry[1], ww.code, ww.bytes, wHeader, buf, order))
    /\ buf' = <<>>
    /\ pc' = IF panicVal # <<>> THEN "propagated" ELSE "returned"
    /\ UNCHANGED <<hvars, xvars, recoverer, base, r, entry, ww, w, wHeader, panicVal, ghosts>>

Next ==
    \/ Enter
    \/ \E p \in Chunks : HandlerWrite(p)
    \/ \E code \in Codes : HandlerWriteHeader(code)
    \/ \E h \in HeaderAdds : HandlerHeaderAdd(h[1], h[2])
    \/ \E key \in FieldKeys : HandlerSetField(key, "v")
    \/ \E fields \in FieldMaps : HandlerSetFields(fields)
    \/ HandlerReadBody
    \/ HandlerReturn
    \/ \E v \in PanicVals : HandlerPanic(v)
    \/ RecovererDeferred
    \/ InterceptorDeferred

Spec == Init /\ [][Next]_vars

\* A handler that only reads the request body and returns.
NextBody ==
    \/ Enter
    \/ HandlerReadBody
    \/ HandlerReturn
    \/ InterceptorDeferred

SpecBody == InitBody /\ [][NextBody]_vars

(***************************************************************************)
(* The context helpers: RawLogEntry, LogEntry, LogEntrySetField and        *)
(* LogEntrySetFields, called with a request logger attached to the context *)
(* (pc = "handler") or with none (pc = "outside").                         *)
(***************************************************************************)
\* zap.NewNop(): a logger without cores; what is logged through it is
\* discarded.
NopLogger == [httpRequest |-> <<>>, fields |-> <<>>, addStack |-> FALSE]

\* logger.With(zap.Reflect(key, value)) on any logger: without cores there
\* is nothing to add the field to.
With(l, key, value) ==
    IF Len(l.httpRequest) = 0 THEN l ELSE WithField(l, key, value)

\* The sink after record rec was logged through l.
Emit(lg, l, rec) ==
    IF Len(l.httpRequest) = 0 THEN lg ELSE Append(lg, rec)

\* RawLogEntry handing out the entry itself instead of a copy of its logger.
RawLogEntryAlias(e) ==
    IF e = <<>>
    THEN [alias |-> FALSE, sugared |-> FALSE, logger |-> NopLogger]
    ELSE [alias |-> TRUE, sugared |-> FALSE, logger |-> e[1]]

\* RawLogEntry: a copy of the logger the entry holds at the time of the
\* call, or a no-op logger.
RawLogEntry(e) ==
    IF e = <<>>
    THEN [alias |-> FALSE, sugared |-> FALSE, logger |-> NopLogger]
    ELSE [alias |-> FALSE, sugared |-> FALSE, logger |-> e[1]]

\* LogEntry: the same logger behind the sugared API.
LogEntry(e) == [RawLogEntry(e) EXCEPT !.sugared = TRUE]

\* The logger a caller works with through the value g it retrieved.
Retrieved(g, e) == IF g.alias /\ e # <<>> THEN e[1] ELSE g.logger

\* LogEntrySetField without the ok test of the type assertion: with no entry
\* it dereferences nil.
LogEntrySetFieldUnchecked(e, key, value) ==
    IF e = <<>>
    THEN [entry |-> e, raised |-> TRUE]
    ELSE [entry |-> Some(SetField(e[1], key, value)), raised |-> FALSE]

\* LogEntrySetField: the context's entry after the call, and whether the
\* call panicked.
LogEntrySetField(e, key, value) ==
    IF e = <<>>
    THEN [entry |-> e, raised |-> FALSE]
    ELSE [entry |-> Some(SetField(e[1], key, value)), raised |-> FALSE]

\* LogEntrySetFields, the map ranged over in `order`.
LogEntrySetFields(e, fields, order) ==
    IF e = <<>>
    THEN [entry |-> e, raised |-> FALSE]
    ELSE [entry |-> Some(SetFields(e[1], fields, order)), raised |-> FALSE]

NilDereference ==
    [kind |-> "error",
     text |-> "runtime error: invalid memory address or nil pointer dereference"]

\* Keys a caller adds to a logger it retrieved.
LocalKeys == {"local"}

\* Code that calls the helpers on a context.Background(): no interceptor,
\* no entry.
InitOutside ==
    /\ hdrIn = <<>> /\ hdrOut = <<>> /\ hpc = "idle"
    /\ NoExtras
    /\ pc = "outside"
    /\ recoverer = FALSE
    /\ base \in {BaseLogger(n) : n \in 1..MaxCores}
    /\ r = <<>>
    /\ entry = <<>>
    /\ ww = <<>> /\ buf = <<>> /\ w = <<>> /\ wHeader = <<>>
    /\ log = <<>> /\ panicVal = <<>> /\ sent = <<>>
    /\ hOps = 0 /\ hWritten = <<>> /\ hFirst = <<>> /\ hSetStatus = FALSE
    /\ hKeys = <<>> /\ hPanic = <<>> /\ bodyErr = FALSE /\ downstream = <<>>

InitCtx == InitWith({<<>>}) \/ InitOutside

InCall == pc \in {"handler", "outside"} /\ hOps < MaxOps

\* A call of LogEntrySetField(ctx, key, value).
CallSetField(key, value) ==
    /\ InCall
    /\ LET o == LogEntrySetField(entry, key, value) IN
           /\ entry' = o.entry
           /\ panicVal' = IF o.raised THEN Some(NilDereference) ELSE panicVal
           /\ pc' = IF o.raised THEN "crashed" ELSE pc
    /\ hKeys' = Append(hKeys, key)
    /\ hOps' = hOps + 1
    /\ UNCHANGED <<hvars, xvars, recoverer, base, r, ww, buf, w, wHeader, log,
                   sent, hWritten, hFirst, hSetStatus, hPanic, bodyErr, downstream>>

\* A call of LogEntrySetFields(ctx, fields).
CallSetFields(fields) ==
    /\ InCall
    /\ \E order \in Perms(DOMAIN fields) :
           LET o == LogEntrySetFields(entry, fields, order) IN
           /\ entry' = o.entry
           /\ panicVal' = IF o.raised THEN Some(NilDereference) ELSE panicVal
           /\ pc' = IF o.raised THEN "crashed" ELSE pc
           /\ hKeys' = hKeys \o order
    /\ hOps' = hOps + 1
    /\ UNCHANGED <<hvars, xvars, recoverer, base, r, ww, buf, w, wHeader, log,
                   sent, hWritten, hFirst, hSetStatus, hPanic, bodyErr, downstream>>

\* oplog := RawLogEntry(ctx); gKeys starts as the keys set so far.
CallRawLogEntry ==
    /\ InCall
    /\ got' = Some(RawLogEntry(entry))
    /\ gKeys' = hKeys
    /\ hOps' = hOps + 1
    /\ UNCHANGED <<hvars, gpc, glocal, reqs, rvars,
                   sent, hWritten, hFirst, hSetStatus, hKeys, hPanic, bodyErr, downstream>>

\* oplog := LogEntry(ctx)
CallLogEntry ==
    /\ InCall
    /\ got' = Some(LogEntry(entry))
    /\ gKeys' = hKeys
    /\ hOps' = hOps + 1
    /\ UNCHANGED <<hvars, gpc, glocal, reqs, rvars,
                   sent, hWritten, hFirst, hSetStatus, hKeys, hPanic, bodyErr, downstream>>

\* oplog = oplog.With(key, "v") on the retrieved logger.
RetrievedWith(key) ==
    /\ InCall
    /\ got # <<>>
    /\ IF got[1].alias /\ entry # <<>>
       THEN /\ entry' = Some(With(entry[1], key, "v"))
            /\ got' = got
       ELSE /\ got' = Some([got[1] EXCEPT !.logger = With(@, key, "v")])
            /\ entry' = entry
    /\ gKeys' = Append(gKeys, key)
    /\ hOps' = hOps + 1
    /\ UNCHANGED <<hvars, gpc, glocal, reqs, pc, recoverer, base, r, ww, buf, w, wHeader,
                   log, panicVal,
                   sent, hWritten, hFirst, hSetStatus, hKeys, hPanic, bodyErr, downstream>>

\* oplog.Info("info here") through the retrieved logger.
RetrievedInfo ==
    /\ InCall
    /\ got # <<>>
    /\ LET l == Retrieved(got[1], entry) IN
           log' = Emit(log, l, Record(l, "info", "info here"))
    /\ hOps' = hOps + 1
    /\ UNCHANGED <<hvars, xvars, pc, recoverer, base, r, entry, ww, buf, w, wHeader, panicVal,
                   sent, hWritten, hFirst, hSetStatus, hKeys, hPanic, bodyErr, downstream>>

NextCtx ==
    \/ Enter
    \/ \E key \in FieldKeys : CallSetField(key, "v")
    \/ \E fields \in FieldMaps : CallSetFields(fields)
    \/ CallRawLogEntry
    \/ CallLogEntry
    \/ \E key \in LocalKeys : RetrievedWith(key)
    \/ RetrievedInfo
    \/ HandlerReturn
    \/ \E v \in PanicVals : HandlerPanic(v)
    \/ RecovererDeferred
    \/ InterceptorDeferred

SpecCtx == InitCtx /\ [][NextCtx]_vars

(***************************************************************************)
(* Two goroutines of one handler, each calling LogEntrySetField on the     *)
(* request's context.  The call is `entry.Logger = entry.Logger.With(...)` *)
(* with no lock: a read of entry.Logger and, later, a store to it.  gpc    *)
(* holds each goroutine's position, whether the two calls overlapped, and  *)
(* which one stored last; glocal the logger each one read; gKeys the key   *)
(* each one sets.                                                          *)
(***************************************************************************)
Goroutines == {1, 2}
RaceKeys == {"user", "op", "trace"}

\* The handler starts `go LogEntrySetField(ctx, k1, v)` and
\* `go LogEntrySetField(ctx, k2, v)` and waits for both.
Spawn(k1, k2) ==
    /\ pc = "handler"
    /\ gpc = <<>>
    /\ k1 # k2
    /\ gpc' = [at |-> <<"call", "call">>, overlapped |-> FALSE, last |-> 0]
    /\ glocal' = << <<>>, <<>> >>
    /\ gKeys' = <<k1, k2>>
    /\ UNCHANGED <<hvars, got, reqs, rvars, ghosts>>

\* Goroutine g evaluates entry.Logger.
GoRead(g) ==
    /\ pc = "handler"
    /\ gpc # <<>>
    /\ gpc.at[g] = "call"
    /\ glocal' = [glocal EXCEPT ![g] = Some(entry[1])]
    /\ gpc' = [gpc EXCEPT !.at[g] = "read",
                          !.overlapped = @ \/ gpc.at[3 - g] = "read"]
    /\ UNCHANGED <<hvars, got, gKeys, reqs, rvars, ghosts>>

\* Goroutine g's call with the store to entry.Logger left out.
GoWriteDropped(g) ==
    /\ pc = "handler"
    /\ gpc # <<>>
    /\ gpc.at[g] = "read"
    /\ gpc' = [gpc EXCEPT !.at[g] = "done", !.last = g]
    /\ UNCHANGED <<hvars, got, gKeys, glocal, reqs, rvars, ghosts>>

\* Goroutine g stores the logger With made from the one it read.
GoWrite(g) ==
    /\ pc = "handler"
    /\ gpc # <<>>
    /\ gpc.at[g] = "read"
    /\ entry' = Some(SetField(glocal[g][1], gKeys[g], "v"))
    /\ gpc' = [gpc EXCEPT !.at[g] = "done", !.last = g]
    /\ UNCHANGED <<hvars, got, gKeys, glocal, reqs, pc, recoverer, base, r, ww, buf, w,
                   wHeader, log, panicVal, ghosts>>

\* Both goroutines are done and the handler returns.
RaceReturn ==
    /\ gpc # <<>>
    /\ gpc.at = <<"done", "done">>
    /\ HandlerReturn

NextRace ==
    \/ Enter
    \/ \E k1, k2 \in RaceKeys : Spawn(k1, k2)
    \/ \E g \in Goroutines : GoRead(g)
    \/ \E g \in Goroutines : GoWrite(g)
    \/ RaceReturn
    \/ InterceptorDeferred

SpecRace == InitWith({<<>>}) /\ [][NextRace]_vars

(***************************************************************************)
(* Several requests in flight through the handler one ZapRequestLogger(l)  *)
(* call made.  The closure shares f (the formatter with the base logger)   *)
(* and the sink; entry, ww and buf are locals of fn, one set per request.  *)
(* reqs[i] holds request i's locals and, as ghosts, what its handler did:  *)
(* the bytes written, the first status-setting step, the keys set.         *)
(***************************************************************************)
MaxMultiOps == 2

Reqs == {1, 2}
ReqIDs == <<"req-1", "req-2">>
ReqBodies == << <<"a">>, <<"b", "b">> >>

\* Request i as it arrives.
MultiRequest(i) ==
    [Method |-> "POST", TLS |-> FALSE, Host |-> "example.com", RequestURI |-> "/info",
     Proto |-> "HTTP/1.1", RemoteAddr |-> "10.0.0.1:1234",
     Header |-> <<>>, ReqID |-> ReqIDs[i], Body |-> Stream(ReqBodies[i], FALSE)]

InitMulti ==
    /\ hdrIn = <<>> /\ hdrOut = <<>> /\ hpc = "idle"
    /\ got = <<>> /\ gKeys = <<>> /\ gpc = <<>> /\ glocal = <<>>
    /\ pc = "multi"
    /\ recoverer = FALSE
    /\ base \in {BaseLogger(n) : n \in 1..MaxCores}
    /\ r = <<>> /\ entry = <<>>
    /\ ww = <<>> /\ buf = <<>> /\ w = <<>> /\ wHeader = <<>>
    /\ log = <<>> /\ panicVal = <<>> /\ sent = <<>>
    /\ hOps = 0 /\ hWritten = <<>> /\ hFirst = <<>> /\ hSetStatus = FALSE
    /\ hKeys = <<>> /\ hPanic = <<>> /\ bodyErr = FALSE /\ downstream = <<>>
    /\ reqs = [i \in Reqs |->
                  [pc |-> "start", r |-> MultiRequest(i), entry |-> <<>>,
                   ww |-> [code |-> 0, wroteHeader |-> FALSE, bytes |-> 0],
                   buf |-> <<>>, w |-> [status |-> 0, body |-> <<>>],
                   ops |-> 0, written |-> <<>>, first |-> 0, keys |-> <<>>]]

single == <<hvars, got, gKeys, gpc, glocal, pc, recoverer, base, r, entry, ww, buf, w,
            wHeader, panicVal, ghosts>>

\* fn for request i up to its call of next.ServeHTTP.
MEnter(i) ==
    /\ reqs[i].pc = "start"
    /\ LET e == NewLogEntry(base, reqs[i].r, [c \in 1..Len(base.httpRequest) |-> <<>>], log) IN
           /\ reqs' = [reqs EXCEPT ![i].entry = Some(e.entry), ![i].r = e.req,
                                   ![i].pc = "handler"]
           /\ log' = e.log
    /\ UNCHANGED single

MInHandler(i) == reqs[i].pc = "handler" /\ reqs[i].ops < MaxMultiOps

\* LogEntrySetField writing to every request's entry, as if the entry were
\* shared by the requests.
MSetFieldShared(i, key) ==
    /\ MInHandler(i)
    /\ reqs' = [j \in Reqs |->
                   IF j = i
                   THEN [reqs[j] EXCEPT !.entry = Some(SetField(@[1], key, ReqIDs[i])),
                                        !.keys = Append(@, key), !.ops = @ + 1]
                   ELSE IF reqs[j].entry # <<>>
                        THEN [reqs[j] EXCEPT !.entry = Some(SetField(@[1], key, ReqIDs[i]))]
                        ELSE reqs[j]]
    /\ UNCHANGED <<single, log>>

\* Request i's handler calls LogEntrySetField(r.Context(), key, <its id>).
MSetField(i, key) ==
    /\ MInHandler(i)
    /\ reqs' = [reqs EXCEPT ![i].entry = Some(SetField(@[1], key, ReqIDs[i])),
                            ![i].keys = Append(@, key), ![i].ops = @ + 1]
    /\ UNCHANGED <<single, log>>

\* Request i's handler calls w.Write(p).
MWrite(i, p) ==
    /\ MInHandler(i)
    /\ LET o == WrapWrite(reqs[i].ww, reqs[i].w, reqs[i].buf, p) IN
           reqs' = [reqs EXCEPT ![i].ww = o.ww, ![i].w = o.w, ![i].buf = o.buf,
                                ![i].written = @ \o p,
                                ![i].first = IF @ = 0 THEN 200 ELSE @,
                                ![i].ops = @ + 1]
    /\ UNCHANGED <<single, log>>

\* Request i's handler calls w.WriteHeader(code).
MWriteHeader(i, code) ==
    /\ MInHandler(i)
    /\ LET o == WrapWriteHeader(reqs[i].ww, reqs[i].w, code) IN
           reqs' = [reqs EXCEPT ![i].ww = o.ww, ![i].w = o.w,
                                ![i].first = IF @ = 0 THEN code ELSE @,
                                ![i].ops = @ + 1]
    /\ UNCHANGED <<single, log>>

\* Request i's handler returns and fn's deferred function writes the
\* completion record.
MDeferred(i) ==
    /\ reqs[i].pc = "handler"
    /\ log' = Append(log, EntryWrite(reqs[i].entry[1], reqs[i].ww.code, reqs[i].ww.bytes,
                                     <<>>, reqs[i].buf, <<>>))
    /\ reqs' = [reqs EXCEPT ![i].buf = <<>>, ![i].pc = "returned"]
    /\ UNCHANGED single

NextMulti ==
    \/ \E i \in Reqs : MEnter(i)
    \/ \E i \in Reqs, key \in FieldKeys : MSetField(i, key)
    \/ \E i \in Reqs, p \in Chunks : MWrite(i, p)
    \/ \E i \in Reqs, code \in Codes : MWriteHeader(i, code)
    \/ \E i \in Reqs : MDeferred(i)

SpecMulti == InitMulti /\ [][NextMulti]_vars

(***************************************************************************)
(* Properties.                                                             *)
(***************************************************************************)
Terminal == pc \in {"returned", "propagated"}

Count(msg) == Cardinality({i \in 1..Len(log) : log[i].msg = msg})

IndexOf(msg) == CHOOSE i \in 1..Len(log) : log[i].msg = msg

\* The httpResponse object of the last record of the sink.
LastResponse == log[Len(log)].httpResponse[1]

FieldKeysOf(fields) == {fields[i].key : i \in 1..Len(fields)}

\* C1: exactly one "Request complete" record per request, emitted after the
\* next handler has returned or panicked, on the normal and on the panicking
\* exit alike: none while the handler (or the Recoverer) is still running,
\* one, the last record, once the interceptor has been left.
C1_CompleteOnceAfterHandler ==
    /\ pc \in {"start", "handler", "recoverer", "deferred"}
           => Count("Request complete") = 0
    /\ Terminal
           => /\ Count("Request complete") = 1
              /\ log[Len(log)].msg = "Request complete"

C1_Witness ==
    /\ pc = "propagated"
    /\ hPanic # <<>>
    /\ Count("Request complete") = 1

\* C2: a handler that panics after writing W leaves exactly one "Panic"
\* record and exactly one "Request complete" record, in that order, the
\* completion record's bytes being len(W).
C2_PanicThenComplete ==
    (Terminal /\ hPanic # <<>>)
        => /\ Count("Panic") = 1
           /\ Count("Request complete") = 1
           /\ IndexOf("Panic") < IndexOf("Request complete")
           /\ LastResponse.bytes = Len(hWritten)

\* C3: "Request started" is emitted exactly once and before the next handler
\* begins: nothing is logged before the interceptor is entered, and from the
\* moment the handler is about to take its first step the sink's first record
\* is the one "Request started" record.
C3_StartedOnceBeforeHandler ==
    /\ pc = "start" => (log = <<>> /\ hOps = 0)
    /\ pc # "start"
           => /\ Len(log) >= 1
              /\ log[1].msg = "Request started"
              /\ Count("Request started") = 1

C3_Witness ==
    /\ pc = "handler"
    /\ hOps = 0 /\ hFirst = <<>> /\ hKeys = <<>> /\ downstream = <<>>
    /\ Len(log) = 1
    /\ log[1].msg = "Request started"

\* C4: a panic that reaches the interceptor's deferred function goes on to
\* the caller: the step that runs the deferred function appends the
\* "Request complete" record, leaves the same panic in flight, and changes
\* neither the wrapped writer nor what the client has been sent.
C4_PanicPropagates ==
    [][(pc = "deferred" /\ panicVal # <<>>)
         => /\ pc' = "propagated"
            /\ panicVal' = panicVal
            /\ w' = w
            /\ ww' = ww
            /\ Len(log') = Len(log) + 1
            /\ log'[Len(log')].msg = "Request complete"]_vars

C4_Witness ==
    /\ pc = "propagated"
    /\ panicVal # <<>>
    /\ w.status = 0
    /\ Count("Request complete") = 1

\* The body field a snapshot of body B carries: omitted when B is empty.
BodyField(B) == IF B = <<>> THEN <<>> ELSE Some(B)

\* C5: when the client's body B arrives in full, then once the interceptor
\* has processed the request the bytes the handler has read followed by the
\* bytes r.Body still yields are exactly B, the stream ends without error,
\* and the httpRequest object of the entry's logger and of the "Request
\* started" record carries B as its body (in every core).
C5_BodyPreserved ==
    (pc # "start" /\ ~bodyErr)
        => /\ downstream \o r.Body.data = sent
           /\ ~r.Body.err
           /\ \A i \in 1..Len(entry[1].httpRequest) :
                  /\ entry[1].httpRequest[i] # <<>>
                  /\ entry[1].httpRequest[i][1].body = BodyField(sent)
                  /\ log[1].httpRequest[i] = entry[1].httpRequest[i]

C5_Witness ==
    /\ Terminal
    /\ ~bodyErr
    /\ Len(sent) >= 2
    /\ sent[1] # sent[2]
    /\ r.Body.data = <<>>
    /\ downstream = sent
    /\ log[1].httpRequest[1][1].body = Some(sent)

\* C6: the completion record reports the bytes the handler wrote: bytes is
\* the length of the concatenation R of its writes, body is R (omitted when
\* R is empty), and status is the status S the handler set, S being the code
\* of a WriteHeader call made before any Write.
C6_CompletionReportsResponse ==
    Terminal
        => /\ LastResponse.bytes = Len(hWritten)
           /\ LastResponse.body = BodyField(hWritten)
           /\ (hFirst # <<>> /\ hFirst[1].op = "WriteHeader")
                  => LastResponse.status = hFirst[1].code

C6_Witness ==
    /\ pc = "returned"
    /\ hFirst = Some([op |-> "WriteHeader", code |-> 404])
    /\ hWritten = <<"x", "y", "z">>
    /\ LastResponse.status = 404
    /\ LastResponse.bytes = 3
    /\ LastResponse.body = Some(<<"x", "y", "z">>)

\* C7: for a handler that returns without ever calling WriteHeader, whether
\* it wrote a body or nothing at all, the completion record's status is 200.
C7_DefaultStatus200 ==
    (pc = "returned" /\ hPanic = <<>> /\ ~hSetStatus)
        => LastResponse.status = 200

\* The key under which a header name is to be logged.
ExpectedKey(k) ==
    CASE k = NAuthorization -> authorization
      [] k = NCookieUpper -> cookie
      [] k = NSetCookie -> setcookie
      [] k = NXId -> NXIdLower
      [] k = NXIdLower -> NXIdLower
      [] k = NContentType -> <<"c","o","n","t","e","n","t","-","t","y","p","e">>

\* "[v1], [v2], ..., [vN]", built value by value from the left.
RECURSIVE BracketedFrom(_, _)
BracketedFrom(v, i) ==
    IF i > Len(v) THEN ""
    ELSE (IF i = 1 THEN "[" ELSE ", [") \o v[i] \o "]" \o BracketedFrom(v, i + 1)

Bracketed(v) == BracketedFrom(v, 1)

\* The strings that show the header value s: s itself, and every list of
\* values with s among them, written out with or without brackets.
Showing ==
    [s \in Range(Secrets) |->
        {s} \cup UNION {{Bracketed(list), Join(list, ", "), Join(list, ",")} :
                          list \in {l \in SeqsUpTo(Range(Secrets), MaxVals) : s \in Range(l)}}]

\* Whether the logged string val shows the header value s.
Shows(val, s) == val \in Showing[s]

OutIndices(key) == {i \in 1..Len(hdrOut) : hdrOut[i].key = key}

\* C8: a header named authorization, cookie or set-cookie in any letter case
\* with at least one value is logged once, under its lowercased name, as
\* "***" however many values it has, and none of its values shows anywhere
\* in the output.
C8_SensitiveMasked ==
    hpc = "done"
        => \A k \in DOMAIN hdrIn \cap SensitiveNames :
               Len(hdrIn[k]) >= 1
                   => /\ Cardinality(OutIndices(ExpectedKey(k))) = 1
                      /\ \A i \in OutIndices(ExpectedKey(k)) : hdrOut[i].val = "***"
                      /\ \A i \in 1..Len(hdrOut), s \in Range(hdrIn[k]) :
                             ~Shows(hdrOut[i].val, s)

C8_Witness ==
    /\ hpc = "done"
    /\ NAuthorization \in DOMAIN hdrIn
    /\ Len(hdrIn[NAuthorization]) = 2
    /\ \E i \in 1..Len(hdrOut) : hdrOut[i] = [key |-> authorization, val |-> "***"]

\* What a non-sensitive header with values v (at least one) is logged as.
ExpectedPlain(v) == IF Len(v) = 1 THEN v[1] ELSE Bracketed(v)

\* C9: a non-sensitive header with no value adds nothing to the output; with
\* one value it is logged as that value; with N > 1 values as
\* "[v1], [v2], ..., [vN]" in the original order; and every logged name is
\* lowercased.  (Two names that differ only in case are logged under the
\* same lowercased key, one entry each.)
C9_PlainHeaders ==
    hpc = "done"
        => /\ \A k \in DOMAIN hdrIn \cap PlainNames :
                  Len(hdrIn[k]) >= 1
                      => \E i \in OutIndices(ExpectedKey(k)) :
                             hdrOut[i].val = ExpectedPlain(hdrIn[k])
           /\ \A key \in {ExpectedKey(k) : k \in PlainNames} :
                  Cardinality(OutIndices(key))
                      = Cardinality({k \in DOMAIN hdrIn \cap PlainNames :
                                        ExpectedKey(k) = key /\ Len(hdrIn[k]) >= 1})
           /\ \A i \in 1..Len(hdrOut) :
                  hdrOut[i].key \in {ExpectedKey(k) : k \in DOMAIN hdrIn}

C9_Witness ==
    /\ hpc = "done"
    /\ NXId \in DOMAIN hdrIn
    /\ hdrIn[NXId] = <<"v1", "v2">>
    /\ NXIdLower \in DOMAIN hdrIn
    /\ hdrIn[NXIdLower] = <<>>
    /\ hdrOut = <<[key |-> NXIdLower, val |-> "[v1], [v2]"]>>

\* C10: every key set with LogEntrySetField / LogEntrySetFields stays on the
\* entry's logger for the rest of the request, and the "Panic" and "Request
\* complete" records carry every key the handler has set.
C10_FieldsCarried ==
    /\ pc \notin {"start", "idle"}
           => Range(hKeys) \subseteq FieldKeysOf(entry[1].fields)
    /\ \A i \in 1..Len(log) :
           log[i].msg \in {"Panic", "Request complete"}
               => Range(hKeys) \subseteq FieldKeysOf(log[i].fields)

C10_Witness ==
    /\ Terminal
    /\ Count("Panic") = 1
    /\ Len(hKeys) = 3
    /\ {"user", "op", "trace"} \subseteq FieldKeysOf(log[IndexOf("Panic")].fields)
    /\ {"user", "op", "trace"} \subseteq FieldKeysOf(log[Len(log)].fields)

KeysSeq(fields) == [i \in 1..Len(fields) |-> fields[i].key]

\* C11: with no request logger attached to the context, RawLogEntry and
\* LogEntry hand out a no-op logger (nothing logged through it reaches the
\* sink), no helper call panics, and LogEntrySetField and LogEntrySetFields
\* leave everything as it was: no entry appears, nothing is logged.
C11_NoEntryNoOp ==
    /\ pc # "crashed"
    /\ pc = "outside" =>
           /\ entry = <<>>
           /\ log = <<>>
           /\ panicVal = <<>>
           /\ got # <<>> => Retrieved(got[1], entry) = NopLogger

C11_Witness ==
    /\ pc = "outside"
    /\ got # <<>>
    /\ Len(hKeys) >= 2
    /\ gKeys # <<>>

\* C20: the logger a caller retrieved is a copy.  It carries the fields set
\* before the retrieval and those the caller added to it, never one set with
\* LogEntrySetField(s) afterwards; the attached logger carries the fields
\* set with LogEntrySetField(s) only, and so do the "Panic" and "Request
\* complete" records.
C20_RetrievedIsCopy ==
    /\ (entry # <<>> /\ got # <<>>) =>
           KeysSeq(Retrieved(got[1], entry).fields) = gKeys
    /\ entry # <<>> => KeysSeq(entry[1].fields) = hKeys
    /\ \A i \in 1..Len(log) :
           log[i].msg \in {"Panic", "Request complete"} =>
               /\ FieldKeysOf(log[i].fields) \cap LocalKeys = {}
               /\ KeysSeq(log[i].fields) = hKeys

C20_Witness ==
    /\ pc = "returned"
    /\ Count("Panic") = 1
    /\ Count("Request complete") = 1
    /\ got # <<>>
    /\ \E k \in LocalKeys : k \in Range(gKeys)
    /\ \E k \in Range(hKeys) : k \notin Range(gKeys)

\* The records the interceptor's entry emits for the request.
EntryRecords ==
    {i \in 1..Len(log) : log[i].msg \in {"Request started", "Panic", "Request complete"}}

\* C12: every "Request started", "Panic" and "Request complete" record of a
\* request carries, for every core, the httpRequest object built at
\* interceptor entry: the one of the "Request started" record, with the
\* request's correlation id (reqId, omitted when the request has none), its
\* method and its URI, whatever the handler did in between.
C12_SameBaseFields ==
    \A i \in EntryRecords :
        /\ log[i].httpRequest = log[1].httpRequest
        /\ Len(log[i].httpRequest) = Len(base.httpRequest)
        /\ \A c \in 1..Len(log[i].httpRequest) :
               /\ log[i].httpRequest[c] # <<>>
               /\ log[i].httpRequest[c][1].reqId
                      = (IF r.ReqID = "" THEN <<>> ELSE <<r.ReqID>>)
               /\ log[i].httpRequest[c][1].method = r.Method
               /\ log[i].httpRequest[c][1].requestURI = r.RequestURI

C12_Witness ==
    /\ pc = "returned"
    /\ Len(log) = 3
    /\ log[2].msg = "Panic"
    /\ log[3].msg = "Request complete"
    /\ r.ReqID = "req-1"
    /\ hKeys # <<>>
    /\ hWritten # <<>>
    /\ hSetStatus

\* The request a record belongs to, by the correlation id it carries.
OwnerOf(rec) == CHOOSE i \in Reqs : rec.httpRequest[1][1].reqId = <<ReqIDs[i]>>

\* C13: with two requests in flight through the same middleware, under every
\* interleaving of their steps each record carries only its own request's
\* data: the request's own snapshot (its body), only fields its own handler
\* set (in the order set), and in the completion record the status, byte
\* count and body of its own response; and the base logger stays without
\* request context and fields.
C13_NoCrossRequestState ==
    /\ base.fields = <<>>
    /\ \A c \in 1..Len(base.httpRequest) : base.httpRequest[c] = <<>>
    /\ \A n \in 1..Len(log) :
           /\ \E i \in Reqs : log[n].httpRequest[1][1].reqId = <<ReqIDs[i]>>
           /\ LET i == OwnerOf(log[n]) IN
              /\ \A c \in 1..Len(log[n].httpRequest) :
                     /\ log[n].httpRequest[c][1].reqId = <<ReqIDs[i]>>
                     /\ log[n].httpRequest[c][1].body = Some(ReqBodies[i])
              /\ \A f \in 1..Len(log[n].fields) : log[n].fields[f].val = ReqIDs[i]
              /\ log[n].msg = "Request started" => log[n].fields = <<>>
              /\ log[n].msg = "Request complete" =>
                     /\ reqs[i].pc = "returned"
                     /\ KeysSeq(log[n].fields) = reqs[i].keys
                     /\ log[n].httpResponse[1].status = reqs[i].first
                     /\ log[n].httpResponse[1].bytes = Len(reqs[i].written)
                     /\ log[n].httpResponse[1].body = BodyField(reqs[i].written)

C13_Witness ==
    /\ reqs # <<>>
    /\ \A i \in Reqs : reqs[i].pc = "returned" /\ reqs[i].ops = 2
    /\ Len(log) = 4
    /\ log[1].msg = "Request started" /\ log[2].msg = "Request started"
    /\ reqs[1].keys = <<"user">> /\ reqs[1].written = <<"x">>
    /\ reqs[2].keys = <<"user">> /\ reqs[2].first = 404
    /\ log[3].httpResponse[1].status # log[4].httpResponse[1].status

\* C14: for a request whose handler panicked, the completion record's status
\* is the status the handler set before the panic (the code of a WriteHeader
\* call made before any Write), and 200 if it set none.
C14_PanicStatus ==
    (Terminal /\ hPanic # <<>>)
        => LastResponse.status
               = (IF hFirst # <<>> /\ hFirst[1].op = "WriteHeader"
                  THEN hFirst[1].code ELSE 200)

\* C15 as claimed: when the read of the request body fails during the
\* capture, also after some bytes were read, the "Request started" record is
\* emitted with the body field omitted and the handler is invoked.
C15_FailedReadEmptyBody ==
    (bodyErr /\ pc # "start")
        => /\ Len(log) >= 1
           /\ log[1].msg = "Request started"
           /\ \A c \in 1..Len(log[1].httpRequest) :
                  /\ log[1].httpRequest[c] # <<>>
                  /\ log[1].httpRequest[c][1].body = <<>>

\* C15 amended: the interceptor's entry step on a request whose body read
\* will fail is not aborted: it emits the "Request started" record and goes
\* on to the handler, and the record's body field holds the bytes read
\* before the error; it is omitted only when there were none.
C15_FailedReadKeepsPrefix ==
    [][(pc = "start" /\ r.Body.err)
           => /\ pc' = "handler"
              /\ panicVal' = <<>>
              /\ Len(log') = 1
              /\ log'[1].msg = "Request started"
              /\ \A c \in 1..Len(log'[1].httpRequest) :
                     /\ log'[1].httpRequest[c] # <<>>
                     /\ log'[1].httpRequest[c][1].body = BodyField(r.Body.data)]_vars

C15_Witness ==
    /\ bodyErr
    /\ pc = "handler"
    /\ Len(sent) = 2
    /\ Len(log) = 1
    /\ Len(log[1].httpRequest) = 2
    /\ log[1].httpRequest[1][1].body = Some(<<Head(sent)>>)

\* C16: the wrapper passes every Write and WriteHeader of the handler on to
\* the underlying writer as it is made: between any two steps of the handler
\* (and until the completion record is written) the bytes sent to the client
\* are the bytes the handler has written so far, the tee holds the same
\* bytes, and the status sent is the one of the handler's first
\* status-setting step (none sent while the handler has made none).
C16_WritesForwarded ==
    pc \in {"handler", "recoverer", "deferred"} =>
        /\ w.body = hWritten
        /\ buf = hWritten
        /\ ww.bytes = Len(hWritten)
        /\ hFirst # <<>> =>
               w.status = (IF hFirst[1].op = "WriteHeader" THEN hFirst[1].code ELSE 200)
        /\ (hFirst = <<>> /\ pc = "handler") => w.status = 0

C16_Witness ==
    /\ pc = "handler"
    /\ hOps < MaxOps
    /\ hFirst = Some([op |-> "WriteHeader", code |-> 201])
    /\ hWritten = <<"y", "z">>
    /\ w = [status |-> 201, body |-> <<"y", "z">>]
    /\ buf = <<"y", "z">>

\* C17: the header object of the completion record is the response header
\* map as it is when the record is written, with every header the handler
\* added, before or after its writes: one entry per name under the
\* lowercased name, "***" for Set-Cookie and the value(s) for the others;
\* no header object when the map is empty.
C17_FinalResponseHeaders ==
    Terminal =>
        IF Cardinality(DOMAIN wHeader) = 0
        THEN LastResponse.header = <<>>
        ELSE /\ LastResponse.header # <<>>
             /\ Len(LastResponse.header[1]) = Cardinality(DOMAIN wHeader)
             /\ \A k \in DOMAIN wHeader :
                    \E i \in 1..Len(LastResponse.header[1]) :
                        /\ LastResponse.header[1][i].key = ExpectedKey(k)
                        /\ LastResponse.header[1][i].val
                               = (IF k = NSetCookie THEN "***" ELSE ExpectedPlain(wHeader[k]))

C17_Witness ==
    /\ pc = "returned"
    /\ hWritten # <<>>
    /\ DOMAIN wHeader = {NContentType, NSetCookie}
    /\ Len(LastResponse.header[1]) = 2
    /\ \E i \in 1..2 : LastResponse.header[1][i] = [key |-> setcookie, val |-> "***"]
    /\ \E i \in 1..2 :
           LastResponse.header[1][i] = [key |-> ExpectedKey(NContentType), val |-> "text/plain"]

\* C18: when the sink has several cores, httpRequestLog.MarshalLogObject runs
\* once per core on the same request while the interceptor is entered, before
\* the handler reads anything: every run captures the same body, the bytes
\* r.Body held before the first run, and r.Body afterwards yields exactly
\* those bytes again and then a clean end of stream.
C18_CaptureIdempotent ==
    [][(pc = "start" /\ Len(base.httpRequest) >= 2)
           => /\ Len(entry'[1].httpRequest) = Len(base.httpRequest)
              /\ \A c \in 1..Len(base.httpRequest) :
                     /\ entry'[1].httpRequest[c] # <<>>
                     /\ entry'[1].httpRequest[c][1].body = BodyField(r.Body.data)
              /\ r'.Body = Stream(r.Body.data, FALSE)
              /\ downstream' = <<>>]_vars

C18_Witness ==
    /\ pc = "handler"
    /\ hOps = 0
    /\ ~bodyErr
    /\ Len(sent) = 2
    /\ Len(entry[1].httpRequest) = 2
    /\ entry[1].httpRequest[1][1].body = Some(sent)
    /\ entry[1].httpRequest[2][1].body = Some(sent)
    /\ r.Body.data = sent

BothDone == gpc # <<>> /\ gpc.at = <<"done", "done">>

\* C19 as claimed: once two concurrent LogEntrySetField calls with distinct
\* keys have both returned, the attached logger carries both keys, and so
\* does the completion record.
C19_BothTakeEffect ==
    BothDone =>
        /\ Range(gKeys) \subseteq FieldKeysOf(entry[1].fields)
        /\ pc = "returned" => Range(gKeys) \subseteq FieldKeysOf(log[Len(log)].fields)

\* C19 amended: once both calls have returned, the attached logger carries
\* both keys if the calls did not overlap (neither read entry.Logger between
\* the other's read and store); if they overlapped it carries the key of the
\* call that stored last, and only that is certain.  The completion record
\* carries the attached logger's fields.
C19_NonOverlappingTakeEffect ==
    BothDone =>
        /\ ~gpc.overlapped => Range(gKeys) \subseteq FieldKeysOf(entry[1].fields)
        /\ gKeys[gpc.last] \in FieldKeysOf(entry[1].fields)
        /\ FieldKeysOf(entry[1].fields) \subseteq Range(gKeys)
        /\ pc = "returned" => log[Len(log)].fields = entry[1].fields

C19_Witness ==
    /\ BothDone
    /\ pc = "returned"
    /\ ~gpc.overlapped
    /\ gpc.last = 1
    /\ KeysSeq(log[Len(log)].fields) = <<gKeys[2], gKeys[1]>>

====
